---- MODULE Spec2Model ----
(***************************************************************************)
(* Model of github-stats: the Collector (collect.py) and the Visualizer    *)
(* (visualize.py).                                                         *)
(*                                                                         *)
(* Text is modelled as sequences of character codes, so that strip, lower, *)
(* split, int, str and strftime are computed and not assumed.  Python      *)
(* dicts are insertion ordered: a dict is a sequence of [key, value]       *)
(* entries with distinct keys.  A datetime is [ord, sec]: the proleptic    *)
(* Gregorian ordinal of its date (date.toordinal()) and the second of the  *)
(* day.  A raised exception is the field exc of a result, "none" when the  *)
(* call returns.                                                           *)
(***************************************************************************)
EXTENDS Integers, Sequences, FiniteSets

VARIABLES
    \* visualize.main
    pc, loaded, authors_arg, commits, weeks, stddev_range, bars, file,
    \* Group.get_score called on its own
    s_pc, s_change, s_minv, s_maxv, s_score,
    \* Day.from_commits / Day._fill_missing_dates
    d_pc, d_commits, d_in, days,
    \* collect.main
    c_pc, git, c_r, c_i, rcommits, c_commits, nupdates, csv_file

visVars == <<pc, loaded, authors_arg, commits, weeks, stddev_range, bars, file>>
scoreVars == <<s_pc, s_change, s_minv, s_maxv, s_score>>
dayVars == <<d_pc, d_commits, d_in, days>>
colVars == <<c_pc, git, c_r, c_i, rcommits, c_commits, nupdates, csv_file>>
vars == <<visVars, scoreVars, dayVars, colVars>>

---------------------------------------------------------------------------
(* Bounds of the model.                                                    *)

\* longest commit list handed to the Visualizer
MaxCommits == 3
\* largest change magnitude and bound handed to get_score on its own
MaxVal == 5
\* longest commit list / largest mapping handed to the Day functions
MaxDays == 3
\* most commits of one repository in a Collector run
MaxLog == 2

---------------------------------------------------------------------------
(* Text.                                                                   *)

TAB == 9
NL == 10
SPACE == 32
DASH == 45
ZERO == 48

RECURSIVE SumSeq(_)
SumSeq(s) ==
    IF s = <<>> THEN 0 ELSE Head(s) + SumSeq(Tail(s))

Range(s) == {s[i] : i \in 1..Len(s)}

RECURSIVE Repeat(_, _)
Repeat(c, n) ==
    IF n <= 0 THEN <<>> ELSE <<c>> \o Repeat(c, n - 1)

RECURSIVE Concat(_)
Concat(ss) ==
    IF ss = <<>> THEN <<>> ELSE Head(ss) \o Concat(Tail(ss))

IsSpace(c) == c \in {SPACE, TAB, NL}

RECURSIVE LStrip(_)
LStrip(s) ==
    IF s # <<>> /\ IsSpace(Head(s)) THEN LStrip(Tail(s)) ELSE s

RECURSIVE RStrip(_)
RStrip(s) ==
    IF s # <<>> /\ IsSpace(s[Len(s)]) THEN RStrip(SubSeq(s, 1, Len(s) - 1)) ELSE s

\* str.strip()
Strip(s) == RStrip(LStrip(s))

\* str.lower(), on ASCII
Lower(s) == [i \in 1..Len(s) |-> IF s[i] \in 65..90 THEN s[i] + 32 ELSE s[i]]

\* str(n) for an int n >= 0
RECURSIVE Str(_)
Str(n) ==
    IF n < 10 THEN <<ZERO + n>> ELSE Str(n \div 10) \o <<ZERO + (n % 10)>>

\* a number zero-padded to w digits, as strftime prints %Y (w = 4) and %W (w = 2)
ZeroPad(n, w) == Repeat(ZERO, w - Len(Str(n))) \o Str(n)

\* Python's < on str: lexicographic on the code points
RECURSIVE StrLess(_, _)
StrLess(a, b) ==
    IF b = <<>> THEN FALSE
    ELSE IF a = <<>> THEN TRUE
    ELSE IF Head(a) # Head(b) THEN Head(a) < Head(b)
    ELSE StrLess(Tail(a), Tail(b))

\* str.split(sep) for a one-character sep: always at least one part
RECURSIVE SplitFrom(_, _, _)
SplitFrom(s, sep, cur) ==
    IF s = <<>> THEN <<cur>>
    ELSE IF Head(s) = sep THEN <<cur>> \o SplitFrom(Tail(s), sep, <<>>)
    ELSE SplitFrom(Tail(s), sep, Append(cur, Head(s)))

Split(s, sep) == SplitFrom(s, sep, <<>>)

IsDigits(s) == s # <<>> /\ \A i \in 1..Len(s) : s[i] \in ZERO..(ZERO + 9)

RECURSIVE DigitsValue(_)
DigitsValue(s) ==
    IF s = <<>> THEN 0 ELSE 10 * DigitsValue(SubSeq(s, 1, Len(s) - 1)) + (s[Len(s)] - ZERO)

\* int(s): surrounding whitespace is ignored, anything but digits raises
ParseInt(s) ==
    IF IsDigits(Strip(s)) THEN [exc |-> "none", val |-> DigitsValue(Strip(s))]
    ELSE [exc |-> "ValueError", val |-> 0]

\* sorted() of a set of strings
RECURSIVE SortedStrs(_)
SortedStrs(S) ==
    IF S = {} THEN <<>>
    ELSE LET m == CHOOSE x \in S : \A y \in S \ {x} : StrLess(x, y)
         IN <<m>> \o SortedStrs(S \ {m})

---------------------------------------------------------------------------
(* Dates.                                                                  *)

Years == 2022..2025

DaysBeforeYear(y) ==
    (y - 1) * 365 + ((y - 1) \div 4) - ((y - 1) \div 100) + ((y - 1) \div 400)

YearOf(ord) ==
    CHOOSE y \in Years : DaysBeforeYear(y) < ord /\ ord <= DaysBeforeYear(y + 1)

\* datetime.weekday(): Monday is 0
Weekday(ord) == (ord + 6) % 7

\* %W: week of the year, Monday first; the days before the first Monday are week 0
WeekOfYear(ord) ==
    ((ord - DaysBeforeYear(YearOf(ord)) - 1) + 7 - Weekday(ord)) \div 7

\* timestamp.strftime("%Y-%W")
strftime_Y_W(ts) ==
    ZeroPad(YearOf(ts.ord), 4) \o <<DASH>> \o ZeroPad(WeekOfYear(ts.ord), 2)

---------------------------------------------------------------------------
(* Commit (collect.py) and the ordered dict.                               *)

Commit(repository, sha, timestamp, author, added, removed) ==
    [repository |-> repository, sha |-> sha, timestamp |-> timestamp,
     author |-> author, added |-> added, removed |-> removed]

Keys(d) == [i \in 1..Len(d) |-> d[i].key]

HasKey(d, k) == \E i \in 1..Len(d) : d[i].key = k

Get(d, k) == d[CHOOSE i \in 1..Len(d) : d[i].key = k].value

\* d[k] = v: a new key goes to the end, an old key keeps its place
Put(d, k, v) ==
    IF HasKey(d, k)
    THEN [i \in 1..Len(d) |-> IF d[i].key = k THEN [key |-> k, value |-> v] ELSE d[i]]
    ELSE Append(d, [key |-> k, value |-> v])

---------------------------------------------------------------------------
(* Group (visualize.py).                                                   *)

Group(name, cs) == [name |-> name, commits |-> cs]

added(g) == SumSeq([i \in 1..Len(g.commits) |-> g.commits[i].added])

removed(g) == SumSeq([i \in 1..Len(g.commits) |-> g.commits[i].removed])

change(g) == added(g) + removed(g)

\* the bounds of a (None, None, None) range: a comparison with them raises
NoBound == [none |-> TRUE, val |-> 0]

Bound(n) == [none |-> FALSE, val |-> n]

Score(num, den) == [exc |-> "none", num |-> num, den |-> den]

get_score_no_clamp(chg, minv, maxv) ==
    IF minv.none \/ maxv.none THEN [exc |-> "TypeError", num |-> 0, den |-> 1]
    ELSE IF chg < minv.val THEN Score(0, 1)
    ELSE IF maxv.val - minv.val = 0 THEN Score(0, 1)
    ELSE Score(chg - minv.val, maxv.val - minv.val)

get_score_no_degenerate(chg, minv, maxv) ==
    IF minv.none \/ maxv.none THEN [exc |-> "TypeError", num |-> 0, den |-> 1]
    ELSE IF chg < minv.val THEN Score(0, 1)
    ELSE IF chg > maxv.val THEN Score(1, 1)
    ELSE IF maxv.val - minv.val = 0 THEN [exc |-> "ZeroDivisionError", num |-> 0, den |-> 1]
    ELSE Score(chg - minv.val, maxv.val - minv.val)

\* Group.get_score, on the group's change; the float score is the exact num / den
get_score(chg, minv, maxv) ==
    IF minv.none \/ maxv.none THEN [exc |-> "TypeError", num |-> 0, den |-> 1]
    ELSE IF chg < minv.val THEN Score(0, 1)
    ELSE IF chg > maxv.val THEN Score(1, 1)
    ELSE IF maxv.val - minv.val = 0 THEN Score(0, 1)
    ELSE Score(chg - minv.val, maxv.val - minv.val)

---------------------------------------------------------------------------
(* functional.list_map / list_filter / list_reduce: visualize.py imports   *)
(* them from a module that is not among the sources.  They are taken to be *)
(* map, filter and left fold, the list first.  A lambda is the function of *)
(* its values on the elements of the list; the function handed to          *)
(* list_reduce is named, and Call applies it.                              *)

\* update, the local function of group_by_week
group_by_week_update(groups, commit) ==
    LET week == strftime_Y_W(commit.timestamp)
        g0 == IF ~HasKey(groups, week)
              THEN Put(groups, week, Group(week, <<>>))
              ELSE groups
    IN Put(g0, week, Group(week, Append(Get(g0, week).commits, commit)))

Call(f, acc, x) ==
    CASE f = "group_by_week.update" -> group_by_week_update(acc, x)

list_map(xs, f) == [i \in 1..Len(xs) |-> f[xs[i]]]

list_filter(xs, p) == SelectSeq(xs, LAMBDA x : p[x])

list_reduce(xs, f, init) ==
    LET acc[i \in 0..Len(xs)] == IF i = 0 THEN init ELSE Call(f, acc[i - 1], xs[i])
    IN acc[Len(xs)]

---------------------------------------------------------------------------
(* The Visualizer's functions.                                             *)

filter_by_authors(cs, authors) ==
    LET _authors == list_map(authors, [a \in Range(authors) |-> Lower(Strip(a))])
    IN list_filter(cs, [x \in Range(cs) |-> Lower(Strip(x.author)) \in Range(_authors)])

group_by_week_overwrite(cs) ==
    LET acc[i \in 0..Len(cs)] ==
            IF i = 0 THEN <<>>
            ELSE LET week == strftime_Y_W(cs[i].timestamp)
                 IN Put(acc[i - 1], week, Group(week, <<cs[i]>>))
    IN acc[Len(cs)]

group_by_week(cs) == list_reduce(cs, "group_by_week.update", <<>>)

\* round(n / d) for n >= 0, d > 0: Python rounds a half to the even neighbour
Round(n, d) ==
    LET q == n \div d
        r == n % d
    IN IF 2 * r < d THEN q
       ELSE IF 2 * r > d THEN q + 1
       ELSE IF q % 2 = 0 THEN q ELSE q + 1

\* round(sqrt(n / d)) for n >= 0, d > 0
RoundSqrt(n, d) ==
    LET k == CHOOSE j \in 0..n : j * j * d <= n /\ (j + 1) * (j + 1) * d > n
        h == (2 * k + 1) * (2 * k + 1) * d
    IN IF 4 * n < h THEN k
       ELSE IF 4 * n > h THEN k + 1
       ELSE IF k % 2 = 0 THEN k ELSE k + 1

\* round(statistics.mean(xs)), xs not empty
RoundMean(xs) == Round(SumSeq(xs), Len(xs))

\* round(statistics.stdev(xs)), the sample standard deviation, Len(xs) > 1:
\* the variance is (n * sum(x^2) - sum(x)^2) / (n * (n - 1))
RoundStdev(xs) ==
    LET n == Len(xs)
        sq == SumSeq([i \in 1..n |-> xs[i] * xs[i]])
        s == SumSeq(xs)
    IN RoundSqrt(n * sq - s * s, n * (n - 1))

Max(a, b) == IF a >= b THEN a ELSE b

RangeOf(exc, none, mean, lower, upper) ==
    [exc |-> exc, none |-> none, mean |-> mean, lower |-> lower, upper |-> upper]

\* (None, None, None)
NoneRange == RangeOf("none", TRUE, 0, 0, 0)

StddevRangeOf(changes) ==
    LET mean == RoundMean(changes)
        stddev == IF Len(changes) > 1 THEN RoundStdev(changes) ELSE 0
        lower == Max(mean - stddev, 0)
        upper == mean + stddev
    IN RangeOf("none", FALSE, mean, lower, upper)

get_stddev_range_zero_appended(groups) ==
    LET changes == list_map(groups, [e \in Range(groups) |-> change(e.value)])
    IN IF changes = <<>> THEN NoneRange
       ELSE StddevRangeOf(Append(changes, 0))

get_stddev_range_no_guard(groups) ==
    LET changes == list_map(groups, [e \in Range(groups) |-> change(e.value)])
    IN IF changes = <<>> THEN RangeOf("StatisticsError", TRUE, 0, 0, 0)
       ELSE StddevRangeOf(changes)

get_stddev_range(groups) ==
    LET changes == list_map(groups, [e \in Range(groups) |-> change(e.value)])
    IN IF changes = <<>> THEN NoneRange
       ELSE StddevRangeOf(changes)

\* the defaults of build_bars
BLOCK == 9600
WIDTH == 50
FIELD == 5

BoundOf(r, v) == IF r.none THEN NoBound ELSE Bound(v)

\* one pass of the loop of build_bars; int(score * width) is taken on the exact
\* product, which the float product can fall short of by one block
Bar(group, lower, upper) ==
    LET score == get_score(change(group), lower, upper)
        digits == Str(change(group))
    IN [exc |-> score.exc,
        bar |-> group.name \o <<SPACE, SPACE>> \o digits
                \o Repeat(SPACE, FIELD - Len(digits))
                \o Repeat(BLOCK, IF score.exc = "none"
                                 THEN (score.num * WIDTH) \div score.den ELSE 0)
                \o <<NL>>]

BarsOver(names, groups, r) ==
    LET lower == BoundOf(r, r.lower)
        upper == BoundOf(r, r.upper)
        each == [i \in 1..Len(names) |-> Bar(Get(groups, names[i]), lower, upper)]
    IN IF \E i \in 1..Len(each) : each[i].exc # "none"
       THEN [exc |-> each[CHOOSE i \in 1..Len(each) :
                             /\ each[i].exc # "none"
                             /\ \A j \in 1..(i - 1) : each[j].exc = "none"].exc,
             bars |-> <<>>]
       ELSE [exc |-> "none", bars |-> [i \in 1..Len(each) |-> each[i].bar]]

build_bars_unsorted(groups, r) == BarsOver(Keys(groups), groups, r)

build_bars(groups, r) == BarsOver(SortedStrs(Range(Keys(groups))), groups, r)

\* the text the file holds after write_bars_to_file
write_bars_to_file(bs) == Concat(bs)

---------------------------------------------------------------------------
(* visualize.main, from the commits Commit.from_csv_file returned (line    *)
(* 192) on.  get_authors and the diagnostics only write to stdout, which   *)
(* is not part of the state.                                               *)

\* "Al", " Bo"
AuthorNames == {<<65, 108>>, <<SPACE, 66, 111>>}

\* no -a option; -a "bO "
AuthorArgs == {<<>>, <<<<98, 79, SPACE>>>>}

\* 2023-01-01 (Sunday, week 00), 2023-01-03 (week 01), 2023-12-31 (week 52),
\* 2024-01-01 (Monday, week 01)
Timestamps ==
    {[ord |-> 738521, sec |-> 0], [ord |-> 738523, sec |-> 0],
     [ord |-> 738885, sec |-> 86399], [ord |-> 738886, sec |-> 0]}

\* (added, removed) of a commit
LineStats == {<<30, 0>>, <<60, 40>>}

\* the rows of the CSV file: row i is commit i, of the timestamp, author and
\* line counts f[i]
CommitList(n, f) ==
    [i \in 1..n |-> Commit("r", i, f[i][1], f[i][2], f[i][3][1], f[i][3][2])]

\* what the output file holds before the run: "x\n"
OldFile == <<120, NL>>

VisInit ==
    /\ pc = "filter"
    /\ \E n \in 0..MaxCommits :
          \E f \in [1..n -> Timestamps \X AuthorNames \X LineStats] :
              loaded = CommitList(n, f)
    /\ authors_arg \in AuthorArgs
    /\ commits = loaded
    /\ weeks = <<>>
    /\ stddev_range = NoneRange
    /\ bars = <<>>
    /\ file = OldFile

VisIdle ==
    /\ pc = "idle"
    /\ loaded = <<>>
    /\ authors_arg = <<>>
    /\ commits = <<>>
    /\ weeks = <<>>
    /\ stddev_range = NoneRange
    /\ bars = <<>>
    /\ file = <<>>

\* line 199
FilterByAuthors ==
    /\ pc = "filter"
    /\ commits' = filter_by_authors(commits, authors_arg)
    /\ pc' = "group"
    /\ UNCHANGED <<loaded, authors_arg, weeks, stddev_range, bars, file>>
    /\ UNCHANGED <<scoreVars, dayVars, colVars>>

\* line 201
GroupByWeek ==
    /\ pc = "group"
    /\ weeks' = group_by_week(commits)
    /\ pc' = "range"
    /\ UNCHANGED <<loaded, authors_arg, commits, stddev_range, bars, file>>
    /\ UNCHANGED <<scoreVars, dayVars, colVars>>

\* line 202
GetStddevRange ==
    /\ pc = "range"
    /\ stddev_range' = get_stddev_range(weeks)
    /\ pc' = IF stddev_range'.exc = "none" THEN "bars" ELSE "raised"
    /\ UNCHANGED <<loaded, authors_arg, commits, weeks, bars, file>>
    /\ UNCHANGED <<scoreVars, dayVars, colVars>>

\* line 204
BuildBars ==
    /\ pc = "bars"
    /\ LET got == build_bars(weeks, stddev_range)
       IN /\ bars' = got.bars
          /\ pc' = IF got.exc = "none" THEN "write" ELSE "raised"
    /\ UNCHANGED <<loaded, authors_arg, commits, weeks, stddev_range, file>>
    /\ UNCHANGED <<scoreVars, dayVars, colVars>>

\* line 205
WriteBarsToFile ==
    /\ pc = "write"
    /\ file' = write_bars_to_file(bars)
    /\ pc' = "done"
    /\ UNCHANGED <<loaded, authors_arg, commits, weeks, stddev_range, bars>>
    /\ UNCHANGED <<scoreVars, dayVars, colVars>>

---------------------------------------------------------------------------
(* Group.get_score on every change and every pair of bounds up to MaxVal.  *)

ScoreInit ==
    /\ s_pc = "call"
    /\ s_change \in 0..MaxVal
    /\ s_minv \in 0..MaxVal
    /\ s_maxv \in 0..MaxVal
    /\ s_score = Score(0, 1)

ScoreIdle ==
    /\ s_pc = "idle"
    /\ s_change = 0
    /\ s_minv = 0
    /\ s_maxv = 0
    /\ s_score = Score(0, 1)

GetScore ==
    /\ s_pc = "call"
    /\ s_score' = get_score(s_change, Bound(s_minv), Bound(s_maxv))
    /\ s_pc' = IF s_score'.exc = "none" THEN "returned" ELSE "raised"
    /\ UNCHANGED <<s_change, s_minv, s_maxv>>
    /\ UNCHANGED <<visVars, dayVars, colVars>>

---------------------------------------------------------------------------
(* Day (visualize.py).  A date is its ordinal: dates compare as their      *)
(* ordinals do, and date + timedelta(days=1) is the next ordinal.          *)

Day(date, cs) == [date |-> date, commits |-> cs, score |-> 0]

\* datetime.date()
DateOf(ts) == ts.ord

MinOf(S) == CHOOSE x \in S : \A y \in S : x <= y

MaxOf(S) == CHOOSE x \in S : \A y \in S : y <= x

\* the while loop of _fill_missing_dates, from current_date on
RECURSIVE FillLoop(_, _, _)
FillLoop(ds, current_date, max_date) ==
    IF current_date <= max_date
    THEN FillLoop(IF ~HasKey(ds, current_date)
                  THEN Put(ds, current_date, Day(current_date, <<>>))
                  ELSE ds,
                  current_date + 1, max_date)
    ELSE ds

RECURSIVE FillLoopOverwrite(_, _, _)
FillLoopOverwrite(ds, current_date, max_date) ==
    IF current_date <= max_date
    THEN FillLoopOverwrite(Put(ds, current_date, Day(current_date, <<>>)),
                           current_date + 1, max_date)
    ELSE ds

fill_missing_dates_overwrite(ds) ==
    IF ds = <<>> THEN ds
    ELSE FillLoopOverwrite(ds, MinOf(Range(Keys(ds))), MaxOf(Range(Keys(ds))))

\* Day._fill_missing_dates
fill_missing_dates(ds) ==
    IF ds = <<>> THEN ds
    ELSE FillLoop(ds, MinOf(Range(Keys(ds))), MaxOf(Range(Keys(ds))))

\* the for loop of Day.from_commits
build_days(cs) ==
    LET step(ds, commit) ==
            LET date == DateOf(commit.timestamp)
                d0 == IF ~HasKey(ds, date) THEN Put(ds, date, Day(date, <<>>)) ELSE ds
            IN Put(d0, date, Day(date, Append(Get(d0, date).commits, commit)))
        ds[i \in 0..Len(cs)] == IF i = 0 THEN <<>> ELSE step(ds[i - 1], cs[i])
    IN ds[Len(cs)]

\* Day.from_commits
from_commits(cs) == fill_missing_dates(build_days(cs))

\* 2023-12-30 .. 2024-01-02
DayTimestamps ==
    {[ord |-> 738884, sec |-> 0], [ord |-> 738885, sec |-> 86399],
     [ord |-> 738886, sec |-> 1], [ord |-> 738887, sec |-> 43200]}

DayCommitLists ==
    UNION {{[i \in 1..n |-> Commit("r", i, f[i], <<65, 108>>, 1, 1)] :
                f \in [1..n -> DayTimestamps]} : n \in 0..MaxDays}

\* the mappings _fill_missing_dates can be handed: distinct dates in any order,
\* each with no commit or with one
DayMappings ==
    UNION {{[i \in 1..n |->
                [key |-> DateOf(k[i]),
                 value |-> Day(DateOf(k[i]),
                               IF e[i] THEN <<>>
                               ELSE <<Commit("r", i, k[i], <<65, 108>>, 1, 1)>>)]] :
                k \in {q \in [1..n -> DayTimestamps] :
                          \A i, j \in 1..n : i # j => q[i] # q[j]},
                e \in [1..n -> BOOLEAN]} : n \in 0..MaxDays}

DayInit ==
    /\ d_in = <<>>
    /\ \/ /\ d_pc = "from_commits"
          /\ d_commits \in DayCommitLists
          /\ days = <<>>
       \/ /\ d_pc = "fill"
          /\ d_commits = <<>>
          /\ days \in DayMappings

DayIdle ==
    /\ d_pc = "idle"
    /\ d_commits = <<>>
    /\ d_in = <<>>
    /\ days = <<>>

\* Day.from_commits, lines 56-61
FromCommitsLoop ==
    /\ d_pc = "from_commits"
    /\ days' = build_days(d_commits)
    /\ d_pc' = "fill"
    /\ UNCHANGED <<d_commits, d_in>>
    /\ UNCHANGED <<visVars, scoreVars, colVars>>

\* Day._fill_missing_dates, called on its own or from line 63; d_in keeps the
\* mapping it was handed
FillMissingDates ==
    /\ d_pc = "fill"
    /\ d_in' = days
    /\ days' = fill_missing_dates(days)
    /\ d_pc' = "returned"
    /\ UNCHANGED d_commits
    /\ UNCHANGED <<visVars, scoreVars, colVars>>

---------------------------------------------------------------------------
(* The Collector (collect.py).  git is what the repositories hold: for     *)
(* each one its path and the lines of `git log --reverse`, each with the   *)
(* text `git show --numstat` prints for that commit.  The log lines are    *)
(* taken as split already into sha, author time and author name.           *)

SLASH == 47
EPOCH == 719163
DAYSECS == 86400

\* datetime.fromtimestamp, the local zone being UTC
FromTimestamp(at) == [ord |-> EPOCH + (at \div DAYSECS), sec |-> at % DAYSECS]

Last(s) == s[Len(s)]

\* repository_path.split("/")[-1]
RepoName(path) == Last(Split(path, SLASH))

update_added_only(item, a, r) == [item EXCEPT !.added = a]

\* Commit.update
update(item, a, r) == [item EXCEPT !.added = a, !.removed = r]

\* get_commits, on the lines of the log
get_commits(repo) ==
    [k \in 1..Len(repo.log) |->
        Commit(RepoName(repo.path), repo.log[k].sha, FromTimestamp(repo.log[k].at),
               repo.log[k].an, -1, -1)]

\* one line of the output of git show in get_added_removed
AddLine(acc, line) ==
    IF acc.exc # "none" \/ Strip(line) = <<>> THEN acc
    ELSE LET parts == Split(line, TAB)
             a == IF parts[1] # <<DASH>> THEN ParseInt(parts[1])
                  ELSE [exc |-> "none", val |-> 0]
             r == IF parts[2] # <<DASH>> THEN ParseInt(parts[2])
                  ELSE [exc |-> "none", val |-> 0]
         IN IF Len(parts) # 3 THEN acc
            ELSE IF a.exc # "none" THEN [acc EXCEPT !.exc = a.exc]
            ELSE IF r.exc # "none"
                 THEN [acc EXCEPT !.exc = r.exc, !.added = acc.added + a.val]
            ELSE [exc |-> "none", added |-> acc.added + a.val,
                  removed |-> acc.removed + r.val]

\* get_added_removed, on the output of git show
get_added_removed(output) ==
    LET lines == Split(output, NL)
        acc[i \in 0..Len(lines)] ==
            IF i = 0 THEN [exc |-> "none", added |-> 0, removed |-> 0]
            ELSE AddLine(acc[i - 1], lines[i])
    IN acc[Len(lines)]

\* Commit.to_csv_row; the timestamp is kept as it is, not formatted
to_csv_row(c) == <<c.repository, c.sha, c.timestamp, c.author, c.added, c.removed>>

\* "a/x", "y"
RepoPaths == <<<<97, SLASH, 120>>, <<121>>>>

\* git show --numstat: one file; three files, one binary; no file; an author
\* name with two tabs in it
ShowOutputs ==
    {<<99, 10, 10, 32, 109, 10, 10, 51, 9, 49, 9, 102, 10>>,
     <<99, 10, 10, 51, 9, 49, 9, 102, 10, 45, 9, 45, 9, 98, 10, 49, 50, 9, 48, 9, 103, 10>>,
     <<99, 10, 10, 32, 109, 10>>,
     <<65, 58, 32, 97, 9, 98, 9, 99, 10, 49, 9, 48, 9, 102, 10>>}

LogEntry(k, show) ==
    [sha |-> <<99, ZERO + k>>, at |-> 1700000000 + k, an |-> <<65, 108>>, show |-> show]

\* git log prints at least one line: it fails on a repository with no commit
Logs ==
    UNION {{[k \in 1..n |-> LogEntry(k, f[k])] : f \in [1..n -> ShowOutputs]} :
           n \in 1..MaxLog}

GitWorlds ==
    UNION {{[r \in 1..n |-> [path |-> RepoPaths[r], log |-> f[r]]] :
                f \in [1..n -> Logs]} : n \in 1..Len(RepoPaths)}

ColInit ==
    /\ c_pc = "get_commits"
    /\ git \in GitWorlds
    /\ c_r = 1
    /\ c_i = 1
    /\ rcommits = <<>>
    /\ c_commits = <<>>
    /\ nupdates = <<>>
    /\ csv_file = <<>>

ColIdle ==
    /\ c_pc = "idle"
    /\ git = <<>>
    /\ c_r = 1
    /\ c_i = 1
    /\ rcommits = <<>>
    /\ c_commits = <<>>
    /\ nupdates = <<>>
    /\ csv_file = <<>>

\* line 110; nupdates counts the calls of update on each record, the records
\* taken in the order they were created: those of commits, then those of rcommits
GetCommits ==
    /\ c_pc = "get_commits"
    /\ rcommits' = get_commits(git[c_r])
    /\ nupdates' = nupdates \o [k \in 1..Len(git[c_r].log) |-> 0]
    /\ c_i' = 1
    /\ c_pc' = "add_line_stats"
    /\ UNCHANGED <<git, c_r, c_commits, csv_file>>
    /\ UNCHANGED <<visVars, scoreVars, dayVars>>

\* one pass of the loop of add_line_stats, lines 90-91
AddLineStats ==
    /\ c_pc = "add_line_stats"
    /\ c_i <= Len(rcommits)
    /\ LET got == get_added_removed(git[c_r].log[c_i].show)
       IN IF got.exc = "none"
          THEN /\ rcommits' = [rcommits EXCEPT ![c_i] = update(@, got.added, got.removed)]
               /\ nupdates' = [nupdates EXCEPT ![Len(c_commits) + c_i] = @ + 1]
               /\ c_i' = c_i + 1
               /\ c_pc' = c_pc
          ELSE /\ c_pc' = "raised"
               /\ UNCHANGED <<rcommits, nupdates, c_i>>
    /\ UNCHANGED <<git, c_r, c_commits, csv_file>>
    /\ UNCHANGED <<visVars, scoreVars, dayVars>>

\* check_output raises: git is missing or exits non-zero (lines 61, 74)
GitFails ==
    /\ \/ c_pc = "get_commits"
       \/ c_pc = "add_line_stats" /\ c_i <= Len(rcommits)
    /\ c_pc' = "raised"
    /\ UNCHANGED <<git, c_r, c_i, rcommits, c_commits, nupdates, csv_file>>
    /\ UNCHANGED <<visVars, scoreVars, dayVars>>

\* line 112, and the next repository or line 113
Extend ==
    /\ c_pc = "add_line_stats"
    /\ c_i > Len(rcommits)
    /\ c_commits' = c_commits \o rcommits
    /\ rcommits' = <<>>
    /\ c_r' = c_r + 1
    /\ c_pc' = IF c_r < Len(git) THEN "get_commits" ELSE "save"
    /\ UNCHANGED <<git, c_i, nupdates, csv_file>>
    /\ UNCHANGED <<visVars, scoreVars, dayVars>>

\* line 113
SaveCommits ==
    /\ c_pc = "save"
    /\ csv_file' = [k \in 1..Len(c_commits) |-> to_csv_row(c_commits[k])]
    /\ c_pc' = "done"
    /\ UNCHANGED <<git, c_r, c_i, rcommits, c_commits, nupdates>>
    /\ UNCHANGED <<visVars, scoreVars, dayVars>>

---------------------------------------------------------------------------
(* The specifications: one per program run, the other runs' variables idle.*)

Init == VisInit /\ ScoreIdle /\ DayIdle /\ ColIdle

Next ==
    \/ FilterByAuthors
    \/ GroupByWeek
    \/ GetStddevRange
    \/ BuildBars
    \/ WriteBarsToFile

Spec == Init /\ [][Next]_vars

ScoreSpecInit == VisIdle /\ ScoreInit /\ DayIdle /\ ColIdle

ScoreSpecNext == GetScore

SpecScore == ScoreSpecInit /\ [][ScoreSpecNext]_vars

DaySpecInit == VisIdle /\ ScoreIdle /\ DayInit /\ ColIdle

DaySpecNext ==
    \/ FromCommitsLoop
    \/ FillMissingDates

SpecDay == DaySpecInit /\ [][DaySpecNext]_vars

ColSpecInit == VisIdle /\ ScoreIdle /\ DayIdle /\ ColInit

ColSpecNext ==
    \/ GetCommits
    \/ AddLineStats
    \/ GitFails
    \/ Extend
    \/ SaveCommits

SpecCollect == ColSpecInit /\ [][ColSpecNext]_vars

---------------------------------------------------------------------------
(* The claims.                                                             *)

Changes(groups) == [i \in 1..Len(groups) |-> change(groups[i].value)]

SumSq(xs) == SumSeq([i \in 1..Len(xs) |-> xs[i] * xs[i]])

Abs(x) == IF x < 0 THEN -x ELSE x

\* m is the integer nearest to the mean of xs, the even one of two
NearestToMean(m, xs) ==
    LET n == Len(xs)
        d == 2 * Abs(n * m - SumSeq(xs))
    IN d < n \/ (d = n /\ m % 2 = 0)

\* s >= 0 is the integer nearest to the sample standard deviation of xs, the
\* even one of two: (2s - 1)^2 <= 4 * variance <= (2s + 1)^2
NearestToStdev(s, xs) ==
    LET n == Len(xs)
        num == 4 * (n * SumSq(xs) - SumSeq(xs) * SumSeq(xs))
        den == n * (n - 1)
        lo == (2 * s - 1) * (2 * s - 1) * den
        hi == (2 * s + 1) * (2 * s + 1) * den
    IN /\ s >= 0
       /\ s = 0 \/ lo < num \/ (lo = num /\ s % 2 = 0)
       /\ num < hi \/ (num = hi /\ s % 2 = 0)

\* r is (mean, max(mean - stddev, 0), mean + stddev) of the list xs
IsRangeOver(r, xs) ==
    LET stddev == r.upper - r.mean
    IN /\ r.exc = "none" /\ ~r.none
       /\ NearestToMean(r.mean, xs)
       /\ IF Len(xs) > 1 THEN NearestToStdev(stddev, xs) ELSE stddev = 0
       /\ r.lower = Max(r.mean - stddev, 0)

RangeComputed == pc \in {"bars", "write", "done"}

InUnit(sc) == sc.den > 0 /\ 0 <= sc.num /\ sc.num <= sc.den

IsZero(sc) == sc.den > 0 /\ sc.num = 0

IsOne(sc) == sc.den > 0 /\ sc.num = sc.den

\* C2 as stated: for lower <= upper the score is in [0,1], is 0 whenever
\* v <= lower and is 1 whenever v >= upper.
C2_Bounded ==
    (s_pc # "call" /\ s_minv <= s_maxv) =>
        /\ s_pc = "returned"
        /\ InUnit(s_score)
        /\ s_change <= s_minv => IsZero(s_score)
        /\ s_change >= s_maxv => IsOne(s_score)

\* C2 amended: for lower <= upper the score is in [0,1], is 0 whenever
\* v <= lower, and is 1 whenever v >= upper unless v = lower = upper (then 0).
C2_BoundedButDegenerate ==
    (s_pc # "call" /\ s_minv <= s_maxv) =>
        /\ s_pc = "returned"
        /\ InUnit(s_score)
        /\ s_change <= s_minv => IsZero(s_score)
        /\ (s_change >= s_maxv /\ ~(s_change = s_minv /\ s_minv = s_maxv))
               => IsOne(s_score)

\* C2, reached: a change above the upper bound of a proper range scores 1
C2_Witness ==
    /\ s_pc = "returned"
    /\ s_minv < s_maxv
    /\ s_change > s_maxv
    /\ IsOne(s_score)

\* C3 as stated: when lower = upper the score is 0 for every v.
C3_DegenerateIsZero ==
    (s_pc # "call" /\ s_minv = s_maxv) =>
        (s_pc = "returned" /\ IsZero(s_score))

\* C3 amended: when lower = upper the score is 0 for every v at or below the
\* bound, and 1 for every v above it.
C3_DegenerateIsZeroUpToBound ==
    (s_pc # "call" /\ s_minv = s_maxv) =>
        /\ s_pc = "returned"
        /\ s_change <= s_maxv => IsZero(s_score)
        /\ s_change > s_maxv => IsOne(s_score)

\* C3, reached: v = lower = upper: the division is not made and the score is 0
C3_Witness ==
    /\ s_pc = "returned"
    /\ s_minv = s_maxv
    /\ s_change = s_minv
    /\ IsZero(s_score)

\* the records whose trimmed, lower-cased author is in the trimmed,
\* lower-cased name set
ByAuthors(cs, names) ==
    SelectSeq(cs, LAMBDA c :
        \E k \in 1..Len(names) : Lower(Strip(c.author)) = Lower(Strip(names[k])))

\* C4: run with no author name, every loaded commit reaches the week
\* grouping; with at least one, those of the named authors do.
C4_FilterIsOptional ==
    pc # "filter" =>
        commits = IF authors_arg = <<>> THEN loaded ELSE ByAuthors(loaded, authors_arg)

Grouped == pc \in {"range", "bars", "write", "done"}

Count(x, xs) == Cardinality({i \in 1..Len(xs) : xs[i] = x})

AllBucketCommits(groups) == Concat([i \in 1..Len(groups) |-> groups[i].value.commits])

\* C5: every commit handed to group_by_week is in exactly one bucket, the one
\* keyed by the year-week of its timestamp; no bucket holds anything else; the
\* buckets together hold the input, each commit as often as the input does.
C5_GroupingTotal ==
    Grouped =>
        /\ \A i, j \in 1..Len(weeks) : weeks[i].key = weeks[j].key => i = j
        /\ \A i \in 1..Len(weeks) :
              /\ weeks[i].value.name = weeks[i].key
              /\ \A c \in Range(weeks[i].value.commits) :
                    /\ c \in Range(commits)
                    /\ strftime_Y_W(c.timestamp) = weeks[i].key
        /\ \A c \in Range(commits) :
              Cardinality({i \in 1..Len(weeks) : c \in Range(weeks[i].value.commits)}) = 1
        /\ \A c \in Range(commits) \cup Range(AllBucketCommits(weeks)) :
              Count(c, AllBucketCommits(weeks)) = Count(c, commits)

\* C5, reached: three commits in two weeks
C5_Witness ==
    /\ pc = "range"
    /\ Len(commits) = 3
    /\ Len(weeks) = 2

Filled == d_pc = "returned"

\* C6: handed a non-empty mapping, _fill_missing_dates returns one whose keys
\* are exactly the dates from the least to the greatest key it was handed,
\* where every inserted bucket has no commits and every bucket it was handed
\* is still under the same key, unchanged.
C6_CalendarContiguity ==
    (Filled /\ d_in # <<>>) =>
        /\ Range(Keys(days)) = MinOf(Range(Keys(d_in)))..MaxOf(Range(Keys(d_in)))
        /\ \A i, j \in 1..Len(days) : days[i].key = days[j].key => i = j
        /\ \A i \in 1..Len(days) :
              IF HasKey(d_in, days[i].key)
              THEN days[i].value = Get(d_in, days[i].key)
              ELSE days[i].value.commits = <<>> /\ days[i].value.date = days[i].key

\* C6, reached: a mapping with a gap and a bucket that holds a commit
C6_Witness ==
    /\ Filled
    /\ Len(days) > Len(d_in)
    /\ \E i \in 1..Len(d_in) : d_in[i].value.commits # <<>>

\* C7: the mapping _fill_missing_dates returns (and so the one from_commits
\* returns) iterates its keys in ascending date order.
C7_AscendingKeys ==
    Filled => \A i, j \in 1..Len(days) : i < j => days[i].key < days[j].key

BarsBuilt == pc \in {"write", "done"}

\* the week key a bar starts with: the text before its first space
KeyOfBar(bar) ==
    SubSeq(bar, 1, (CHOOSE k \in 1..Len(bar) :
                       bar[k] = SPACE /\ \A j \in 1..(k - 1) : bar[j] # SPACE) - 1)

Permutations(n) == {f \in [1..n -> 1..n] : \A i, j \in 1..n : f[i] = f[j] => i = j}

\* C8: build_bars and write_bars_to_file emit one line per group, in strictly
\* ascending week-key order whatever order the groups were inserted in: the
\* bars of every reordering of the mapping are the same bars.
C8_SortedBars ==
    /\ BarsBuilt =>
          /\ Len(bars) = Len(weeks)
          /\ \A i \in 1..Len(bars) :
                /\ HasKey(weeks, KeyOfBar(bars[i]))
                /\ Count(NL, bars[i]) = 1 /\ Last(bars[i]) = NL
          /\ \A i, j \in 1..Len(bars) : i < j => StrLess(KeyOfBar(bars[i]), KeyOfBar(bars[j]))
          /\ \A f \in Permutations(Len(weeks)) :
                build_bars([i \in 1..Len(weeks) |-> weeks[f[i]]], stddev_range).bars = bars
    /\ pc = "done" =>
          /\ Count(NL, file) = Len(weeks)
          /\ Split(file, NL) = [i \in 1..(Len(bars) + 1) |->
                IF i <= Len(bars) THEN SubSeq(bars[i], 1, Len(bars[i]) - 1) ELSE <<>>]

\* C8, reached: groups inserted in descending key order, written
C8_Witness ==
    /\ pc = "done"
    /\ Len(weeks) >= 2
    /\ \A i, j \in 1..Len(weeks) : i < j => StrLess(weeks[j].key, weeks[i].key)
    /\ file # <<>>

\* C9: with no commit reaching the grouping the run raises nothing and goes
\* on to the end: zero buckets, the range (None, None, None), no bars, an
\* empty file.
C9_EmptyInput ==
    (pc # "filter" /\ commits = <<>>) =>
        /\ pc # "raised"
        /\ pc # "done" => ENABLED Next
        /\ Grouped => weeks = <<>>
        /\ RangeComputed => stddev_range = NoneRange
        /\ BarsBuilt => bars = <<>>
        /\ pc = "done" => file = <<>>

\* C9, reached: commits were loaded, the filter kept none, the run is over
C9_Witness ==
    /\ pc = "done"
    /\ loaded # <<>>
    /\ authors_arg # <<>>
    /\ commits = <<>>
    /\ file = <<>>

\* the records of the run, in the order they were created
Records == c_commits \o rcommits

====
